---- MODULE Spec2Model ----
\* Conversation state synchronisation of the customer-service chat client:
\* the login form (CustomerLogin), the page component (Home) with its
\* handleLogin / handleSendMessage handlers, and the chat transport
\* (callChatAPI).  Every handler runs synchronously up to its await; the
\* continuation after the await is one further atomic step.
EXTENDS Integers, Sequences, FiniteSets, TLC

\* ---------------------------------------------------------------- bounds
MaxSends == 2      \* handleSendMessage invocations explored per behaviour
MaxClock == 2      \* largest Date.now() reading explored (readings start at 1)

\* ------------------------------------------------------- JavaScript values
UndefinedStr == "<undefined>"       \* undefined in a string-typed slot
NullStr == "<null>"                 \* null in a string-typed slot
UndefinedObj == [kind |-> "undefined"] \* undefined in an object/array slot
NullObj == [kind |-> "null"]           \* null in an object slot
Arr(items) == [kind |-> "array", items |-> items]      \* an array
Obj(fields) == [kind |-> "object", fields |-> fields]  \* an object: its key/value pairs
NoTimestamp == -1                   \* an event that carries no timestamp
NoSuffix == 0                       \* an id built from Date.now() alone

\* JavaScript truthiness of a string-or-null value (the operand of ! and ||).
TruthyStr(s) == s \notin {"", UndefinedStr, NullStr}
\* JavaScript truthiness of an object/array-or-undefined value: [] and {} are truthy.
TruthyObj(o) == o.kind \notin {"undefined", "null"}
\* a ?? b on strings: only null and undefined are replaced.
NullishStr(s, d) == IF s \in {UndefinedStr, NullStr} THEN d ELSE s
\* a || b
OrStr(s, d) == IF TruthyStr(s) THEN s ELSE d
OrObj(o, d) == IF TruthyObj(o) THEN o ELSE d
\* Array.isArray
IsArray(o) == o.kind = "array"

EmptyCtx == Obj({})                 \* the object {}
EmptyList == << >>                  \* the elements of the array []

\* ------------------------------------------------------------- the server
\* Event and message payloads the chat endpoint may return.
EvHandoff == [type |-> "handoff", timestamp |-> 0]
EvMessage == [type |-> "message", timestamp |-> NoTimestamp]
EvTool == [type |-> "tool_call", timestamp |-> 5]

CtxA == Obj({ <<"account_number", "CUST001">> })
CtxB == Obj({ <<"account_number", "CUST001">>, <<"seat_number", "12A">> })
Roster1 == << [name |-> "Triage Agent"] >>
Roster2 == << [name |-> "Triage Agent"], [name |-> "Seat Booking Agent"] >>
Guard1 == << [name |-> "Relevance Guardrail", passed |-> TRUE] >>
Guard2 == << [name |-> "Jailbreak Guardrail", passed |-> FALSE] >>
Msg1 == [content |-> <<"How can I help?">>, agent |-> "Triage Agent"]
Msg2 == [content |-> <<"Which seat would you like?">>, agent |-> "Seat Booking Agent"]
Msg3 == [content |-> <<"Your seat is 12A.">>, agent |-> "Seat Booking Agent"]

ChatResponse(cid, agent, ctx, evs, ags, grs, msgs) ==
  [conversation_id |-> cid, current_agent |-> agent, context |-> ctx,
   events |-> evs, agents |-> ags, guardrails |-> grs, messages |-> msgs,
   kind |-> "object"]

\* JSON bodies of successful /chat replies: complete ones, one that carries
\* nothing, one with the logs only and one with the snapshots only.
Responses ==
  { ChatResponse("conv-1", "Triage Agent", CtxA, Arr(<<EvHandoff>>), Arr(Roster1),
                 Arr(Guard1), Arr(<<Msg1>>)),
    ChatResponse("conv-2", "Seat Booking Agent", CtxB, Arr(<<EvMessage, EvTool>>),
                 Arr(Roster2), Arr(Guard2), Arr(<<Msg2, Msg3>>)),
    ChatResponse(UndefinedStr, UndefinedStr, UndefinedObj, UndefinedObj, UndefinedObj,
                 UndefinedObj, UndefinedObj),
    ChatResponse("conv-2", UndefinedStr, UndefinedObj, Arr(<<EvMessage>>), UndefinedObj,
                 UndefinedObj, Arr(EmptyList)),
    ChatResponse(UndefinedStr, "Seat Booking Agent", EmptyCtx, UndefinedObj, Arr(EmptyList),
                 Arr(EmptyList), UndefinedObj) }

\* What fetch("/chat") can come to: a 2xx reply with a JSON body, a non-2xx
\* reply, a rejected promise, or a 2xx reply whose body cannot be read as
\* JSON (the connection drops after the headers, or the body is not JSON),
\* so that res.json() rejects.
FetchOutcomes ==
  { [kind |-> "ok", json |-> r] : r \in Responses }
    \cup { [kind |-> "http_error", json |-> NullObj],
           [kind |-> "network_error", json |-> NullObj],
           [kind |-> "body_error", json |-> NullObj] }

\* Customer records the lookup endpoint knows.
KnownAccounts == {"CUST001"}
CustomerRecord(acct) ==
  [customer |-> [name |-> IF acct = "CUST001" THEN "Ava Shah" ELSE "Ben Cole",
                 account_number |-> acct],
   bookings |-> EmptyList, kind |-> "object"]

\* What fetch("/customer/<acct>") can come to.
LookupOutcomes(acct) ==
  (IF acct \in KnownAccounts THEN {[kind |-> "ok", status |-> 200]}
                             ELSE {[kind |-> "http_error", status |-> 404]})
    \cup { [kind |-> "http_error", status |-> 500],
           [kind |-> "network_error", status |-> 0] }

\* --------------------------------------------------------------- inputs
RawInputs == {"", " ", "cust001", "CUST999"}     \* keystrokes in the account box
Contents == {"Change my seat"}                   \* texts the customer sends

\* String.prototype.toUpperCase on the inputs above.
ToUpperCase(s) == IF s = "cust001" THEN "CUST001" ELSE s
\* String.prototype.trim on the inputs above.
Trim(s) == IF s = " " THEN "" ELSE s

VARIABLES
  \* CustomerLogin component
  loginInput,      \* accountNumber state of the form
  loginLoading,    \* isLoading state of the form
  loginError,      \* error state of the form
  lookup,          \* customer lookups in flight: account numbers
  \* Home component
  messages, events, agents, currentAgent, guardrails, context,
  conversationId, isLoading, isLoggedIn, customerInfo, accountNumber,
  \* AgentPanel component
  runnerEvents,    \* the list its latest render handed to RunnerOutput
  \* environment
  now,             \* the latest reading Date.now() gave
  inflight,        \* callChatAPI invocations awaiting their reply
  randomCalls,     \* Math.random() calls made so far
  nextTurn,        \* number the next handleSendMessage invocation gets (history)
  resolved,        \* the handler step taken last: the await that resumed, with
                   \* its data, or the login form's submit (history)
  answers          \* the sends answered with data so far, and the data of the
                   \* answer to the latest-submitted of them (history)

vars == << loginInput, loginLoading, loginError, lookup,
           messages, events, agents, currentAgent, guardrails, context,
           conversationId, isLoading, isLoggedIn, customerInfo, accountNumber,
           now, inflight, randomCalls, nextTurn, resolved, answers, runnerEvents >>

loginVars == << loginInput, loginLoading, loginError, lookup >>
sliceVars == << events, agents, currentAgent, guardrails, context, conversationId >>
sessionVars == << isLoggedIn, customerInfo, accountNumber >>

NoResolution == [op |-> "none", turn |-> 0, data |-> NullObj, alone |-> FALSE]
NoAnswers == [answered |-> {}, turn |-> 0, data |-> NullObj]

\* ------------------------------------------------------------ transport
\* Mutation: account_number is never added to the body.
ChatRequestBodyNoAccount(message, cid, acct) ==
  [conversation_id |-> cid, message |-> message, account_number |-> UndefinedStr]

\* The JSON body callChatAPI posts: account_number only when one is given.
ChatRequestBody(message, cid, acct) ==
  [conversation_id |-> cid, message |-> message,
   account_number |-> IF TruthyStr(acct) THEN acct ELSE UndefinedStr]

\* Whether callChatAPI rejects for an outcome of its fetch.  The try block
\* catches a rejected fetch and the error thrown for a non-2xx reply, but
\* "return res.json()" hands the body promise back without awaiting it, so a
\* rejection of res.json() is not caught and reaches the caller.
CallChatAPIThrows(out) == out.kind = "body_error"

\* What callChatAPI returns for an outcome of its fetch when it returns: the
\* parsed body of a 2xx reply, null for what the catch block handles.
CallChatAPIResult(out) == IF out.kind = "ok" THEN out.json ELSE NullObj

\* A callChatAPI invocation awaiting its reply, with what the awaiting
\* handler's closure holds: the conversation id and customer record it saw.
PendingCall(op, turn, body, cid, custInfo, alone) ==
  [op |-> op, turn |-> turn, body |-> body,
   conversationId |-> cid, custInfo |-> custInfo, alone |-> alone]

\* ------------------------------------------------------------- messages
MessageId(clock, suffix) == << clock, suffix >>

\* A transcript entry; turn is the send that produced it (0: the login).
Message(id, content, role, agent, clock, turn) ==
  [id |-> id, content |-> content, role |-> role, agent |-> agent,
   timestamp |-> clock, turn |-> turn]

UserMessage(content, clock, turn) ==
  Message(MessageId(clock, NoSuffix), <<content>>, "user", UndefinedStr, clock, turn)

FallbackContent ==
  <<"I'm having trouble connecting right now. Please try again in a moment.">>

FallbackMessage(clock, turn) ==
  Message(MessageId(clock, NoSuffix), FallbackContent, "assistant", "System", clock, turn)

WelcomeContent(name) ==
  <<"Welcome back, ", name,
    "! I can help you with your bookings, flight status, seat changes, and more. How can I assist you today?">>

WelcomeMessage(custInfo, clock) ==
  Message(MessageId(clock, NoSuffix), WelcomeContent(custInfo.customer.name),
          "assistant", "Triage Agent", clock, 0)

\* The k-th Math.random() value of a step: successive values of the
\* generator, taken to be pairwise different.
MathRandom(k) == randomCalls + k

\* data.messages.map(...): one assistant entry per reply message, each with
\* an id of the clock reading followed by a Math.random() value.
AssistantMessages(msgs, clock, turn) ==
  [i \in 1..Len(msgs) |->
     Message(MessageId(clock, MathRandom(i)), msgs[i].content, "assistant",
             msgs[i].agent, clock, turn)]

\* Math.random() calls that converting a reply's message list makes.
RandomCallsFor(list) == IF IsArray(list) THEN Len(list.items) ELSE 0

\* Mutation: e.timestamp || Date.now(), which also replaces a timestamp of 0.
StampTimestampOr(ts, clock) == IF ts = NoTimestamp \/ ts = 0 THEN clock ELSE ts

\* e.timestamp ?? Date.now()
StampTimestamp(ts, clock) == IF ts = NoTimestamp THEN clock ELSE ts

\* data.events.map(e => ({...e, timestamp: e.timestamp ?? Date.now()}))
StampEvents(evs, clock) ==
  [i \in 1..Len(evs) |-> [evs[i] EXCEPT !.timestamp = StampTimestamp(evs[i].timestamp, clock)]]

\* ----------------------------------------------------------- AgentPanel
\* Mutation: every event is handed on.
RunnerEventsAll(evs) == evs

\* events.filter((e) => e.type !== "message"), computed at each render of
\* AgentPanel; Home renders it again after every change of its state.
RunnerEvents(evs) == SelectSeq(evs, LAMBDA e : e.type # "message")

\* ------------------------------------------------------------------ Init
Init ==
  /\ loginInput = "" /\ loginLoading = FALSE /\ loginError = "" /\ lookup = {}
  /\ messages = EmptyList /\ events = EmptyList /\ agents = EmptyList
  /\ currentAgent = "" /\ guardrails = EmptyList /\ context = EmptyCtx
  /\ conversationId = NullStr /\ isLoading = FALSE
  /\ isLoggedIn = FALSE /\ customerInfo = NullObj /\ accountNumber = ""
  /\ now = 1 /\ inflight = {} /\ randomCalls = 0 /\ nextTurn = 1 /\ resolved = NoResolution
  /\ answers = NoAnswers /\ runnerEvents = EmptyList

homeVars == << messages, events, agents, currentAgent, guardrails, context,
               conversationId, isLoading, isLoggedIn, customerInfo, accountNumber >>

\* ------------------------------------------------------- CustomerLogin
\* onChange of the account box (disabled while a lookup is running).
TypeAccount(raw) ==
  /\ ~isLoggedIn /\ ~loginLoading
  /\ loginInput' = ToUpperCase(raw)
  /\ resolved' = NoResolution
  /\ UNCHANGED << loginLoading, loginError, lookup, homeVars, now, inflight, randomCalls, nextTurn, answers, runnerEvents >>

\* CustomerLogin.handleLogin up to its await: a blank account number is
\* refused before any request, otherwise the lookup is issued.
LoginSubmit ==
  /\ ~isLoggedIn /\ ~loginLoading
  /\ IF ~TruthyStr(Trim(loginInput))
       THEN /\ loginError' = "Please enter your account number"
            /\ UNCHANGED << loginLoading, lookup >>
       ELSE /\ loginLoading' = TRUE
            /\ loginError' = ""
            /\ lookup' = lookup \cup {loginInput}
  /\ resolved' = [op |-> "submit", turn |-> 0, data |-> NullObj, alone |-> FALSE]
  /\ UNCHANGED << loginInput, homeVars, now, inflight, randomCalls, nextTurn, answers, runnerEvents >>

\* Mutation: the customer record is not stored.
HomeHandleLoginDropsRecord(accNumber, custInfo) ==
  /\ accountNumber' = accNumber
  /\ customerInfo' = customerInfo
  /\ isLoggedIn' = TRUE
  /\ inflight' = inflight \cup
       { PendingCall("bootstrap", 0, ChatRequestBody("", "", accNumber),
                     conversationId, custInfo, inflight = {}) }

\* Home.handleLogin up to its await, called by onLogin: the session is
\* recorded and the bootstrap call issued.
HomeHandleLogin(accNumber, custInfo) ==
  /\ accountNumber' = accNumber
  /\ customerInfo' = custInfo
  /\ isLoggedIn' = TRUE
  /\ inflight' = inflight \cup
       { PendingCall("bootstrap", 0, ChatRequestBody("", "", accNumber),
                     conversationId, custInfo, inflight = {}) }

\* Mutation: a 404 is reported like every other failed status.
LookupErrorMessageNo404(out) ==
  IF out.kind = "network_error"
    THEN "Network error. Please check your connection and try again."
    ELSE "Failed to load customer information. Please try again."

\* The error CustomerLogin.handleLogin shows for a lookup that did not succeed.
LookupErrorMessage(out) ==
  IF out.kind = "network_error"
    THEN "Network error. Please check your connection and try again."
    ELSE IF out.status = 404
      THEN "Account number not found. Please check and try again."
      ELSE "Failed to load customer information. Please try again."

\* CustomerLogin.handleLogin after its await.
LookupResolve(acct, out) ==
  /\ acct \in lookup
  /\ lookup' = lookup \ {acct}
  /\ loginLoading' = FALSE
  /\ IF out.kind = "ok"
       THEN /\ HomeHandleLogin(acct, CustomerRecord(acct))
            /\ UNCHANGED loginError
       ELSE /\ loginError' = LookupErrorMessage(out)
            /\ UNCHANGED << sessionVars, inflight >>
  /\ resolved' = [op |-> "lookup", turn |-> 0, data |-> out, alone |-> FALSE]
  /\ UNCHANGED << loginInput, messages, sliceVars, isLoading, now, randomCalls, nextTurn, answers, runnerEvents >>

\* ------------------------------------------------------------------ Home
\* Date.now() reads t in this handler step: the clock never runs backwards.
ClockReads(t) == t \in now..MaxClock /\ now' = t

\* Mutation: the second setMessages call is lost.
SetTwiceKeepsFirst(first, second) == first

\* Two setMessages(value) calls in one continuation: the later value stands.
SetTwice(first, second) == second

\* Home.handleLogin after its await.  Nothing happens on null; on data every
\* slice is set from the reply, and the transcript is set twice: to the
\* converted reply messages, then to the welcome message alone.
BootstrapResolve(c, out, t) ==
  LET data == CallChatAPIResult(out)
      fromReply == IF IsArray(data.messages)
                     THEN AssistantMessages(data.messages.items, t, 0)
                     ELSE messages
  IN
  /\ c \in inflight /\ c.op = "bootstrap"
  /\ ~CallChatAPIThrows(out)
  /\ ClockReads(t)
  /\ inflight' = inflight \ {c}
  /\ IF TruthyObj(data)
       THEN /\ conversationId' = data.conversation_id
            /\ currentAgent' = data.current_agent
            /\ context' = data.context
            /\ events' = StampEvents(OrObj(data.events, Arr(EmptyList)).items, t)
            /\ agents' = OrObj(data.agents, Arr(EmptyList)).items
            /\ guardrails' = OrObj(data.guardrails, Arr(EmptyList)).items
            /\ messages' = SetTwice(fromReply, << WelcomeMessage(c.custInfo, t) >>)
            /\ randomCalls' = randomCalls + RandomCallsFor(data.messages)
       ELSE UNCHANGED << messages, sliceVars, randomCalls >>
  /\ resolved' = [op |-> "bootstrap", turn |-> 0, data |-> data, alone |-> c.alone]
  /\ runnerEvents' = RunnerEvents(events')
  /\ UNCHANGED << loginVars, isLoading, sessionVars, nextTurn, answers >>

\* Home.handleSendMessage up to its await: the optimistic append, the pending
\* flag and the request, which carries the conversation id this render holds.
SendStart(content, t) ==
  /\ isLoggedIn
  /\ ClockReads(t)
  /\ nextTurn <= MaxSends
  /\ messages' = Append(messages, UserMessage(content, t, nextTurn))
  /\ isLoading' = TRUE
  /\ inflight' = { [c EXCEPT !.alone = FALSE] : c \in inflight } \cup
       { PendingCall("send", nextTurn,
                     ChatRequestBody(content, NullishStr(conversationId, ""), accountNumber),
                     conversationId, customerInfo, inflight = {}) }
  /\ nextTurn' = nextTurn + 1
  /\ resolved' = NoResolution
  /\ UNCHANGED << loginVars, sliceVars, sessionVars, randomCalls, answers, runnerEvents >>

\* Mutation: the failure branch also resets the current agent.
SendFailedClearsAgent(c, t) ==
  /\ messages' = Append(messages, FallbackMessage(t, c.turn))
  /\ isLoading' = FALSE
  /\ currentAgent' = ""
  /\ UNCHANGED << events, agents, guardrails, context, conversationId, randomCalls >>

\* The failure branch of handleSendMessage: one fallback message.
SendFailed(c, t) ==
  /\ messages' = Append(messages, FallbackMessage(t, c.turn))
  /\ isLoading' = FALSE
  /\ UNCHANGED << sliceVars, randomCalls >>

\* Mutation: the response's id is adopted whenever it carries one.
NextConversationIdAdopts(captured, data, prev) ==
  IF TruthyStr(data.conversation_id) THEN data.conversation_id ELSE prev

\* if (!conversationId) setConversationId(data.conversation_id || null), where
\* conversationId is the value the handler's closure captured at the send.
NextConversationId(captured, data, prev) ==
  IF ~TruthyStr(captured) THEN OrStr(data.conversation_id, NullStr) ELSE prev

\* Mutation: setCurrentAgent(data.current_agent), as the login path has it.
NextCurrentAgentRaw(data) == data.current_agent

\* setCurrentAgent(data.current_agent || "")
NextCurrentAgent(data) == OrStr(data.current_agent, "")

\* setContext(data.context || {})
NextContext(data) == OrObj(data.context, EmptyCtx)

\* if (data.events) setEvents(prev => [...prev, ...stamped])
NextEvents(data, prev, t) ==
  IF TruthyObj(data.events) THEN prev \o StampEvents(data.events.items, t) ELSE prev

\* Mutation: setAgents(data.agents || []), as the login path has it.
NextAgentsOrEmpty(data, prev) == OrObj(data.agents, Arr(EmptyList)).items

\* if (data.agents) setAgents(data.agents)
NextAgents(data, prev) == IF TruthyObj(data.agents) THEN data.agents.items ELSE prev

\* if (data.guardrails) setGuardrails(data.guardrails)
NextGuardrails(data, prev) ==
  IF TruthyObj(data.guardrails) THEN data.guardrails.items ELSE prev

\* Mutation: setMessages(responses), replacing the transcript.
NextMessagesReplaces(data, prev, t, turn) ==
  IF TruthyObj(data.messages)
    THEN AssistantMessages(data.messages.items, t, turn)
    ELSE prev

\* if (data.messages) setMessages(prev => [...prev, ...responses])
NextMessages(data, prev, t, turn) ==
  IF TruthyObj(data.messages)
    THEN prev \o AssistantMessages(data.messages.items, t, turn)
    ELSE prev

\* Mutation: the success branch leaves the pending flag as it is.
SendSucceededKeepsPending(c, data, t) ==
  /\ conversationId' = NextConversationId(c.conversationId, data, conversationId)
  /\ currentAgent' = NextCurrentAgent(data)
  /\ context' = NextContext(data)
  /\ events' = NextEvents(data, events, t)
  /\ agents' = NextAgents(data, agents)
  /\ guardrails' = NextGuardrails(data, guardrails)
  /\ messages' = NextMessages(data, messages, t, c.turn)
  /\ randomCalls' = randomCalls + RandomCallsFor(data.messages)
  /\ isLoading' = isLoading

\* The success branch of handleSendMessage.
SendSucceeded(c, data, t) ==
  /\ conversationId' = NextConversationId(c.conversationId, data, conversationId)
  /\ currentAgent' = NextCurrentAgent(data)
  /\ context' = NextContext(data)
  /\ events' = NextEvents(data, events, t)
  /\ agents' = NextAgents(data, agents)
  /\ guardrails' = NextGuardrails(data, guardrails)
  /\ messages' = NextMessages(data, messages, t, c.turn)
  /\ randomCalls' = randomCalls + RandomCallsFor(data.messages)
  /\ isLoading' = FALSE

\* The record of answered sends after send number turn was answered with data.
RecordAnswer(prev, turn, data) ==
  [answered |-> prev.answered \cup {turn},
   turn |-> IF turn > prev.turn THEN turn ELSE prev.turn,
   data |-> IF turn > prev.turn THEN data ELSE prev.data]

\* Home.handleSendMessage after its await.
SendResolve(c, out, t) ==
  LET data == CallChatAPIResult(out) IN
  /\ c \in inflight /\ c.op = "send"
  /\ ~CallChatAPIThrows(out)
  /\ ClockReads(t)
  /\ inflight' = inflight \ {c}
  /\ IF ~TruthyObj(data) THEN SendFailed(c, t) ELSE SendSucceeded(c, data, t)
  /\ resolved' = [op |-> "send", turn |-> c.turn, data |-> data, alone |-> c.alone]
  /\ runnerEvents' = RunnerEvents(events')
  /\ answers' = IF TruthyObj(data) THEN RecordAnswer(answers, c.turn, data) ELSE answers
  /\ UNCHANGED << loginVars, sessionVars, nextTurn >>

\* The await of callChatAPI throws in handleLogin or handleSendMessage: the
\* handler ends there and none of its remaining statements run.
CallRejects(c, out) ==
  /\ c \in inflight
  /\ CallChatAPIThrows(out)
  /\ inflight' = inflight \ {c}
  /\ resolved' = [op |-> "rejected", turn |-> c.turn, data |-> NullObj, alone |-> c.alone]
  /\ UNCHANGED << loginVars, homeVars, now, randomCalls, nextTurn, answers, runnerEvents >>

Next ==
  \/ \E raw \in RawInputs : TypeAccount(raw)
  \/ LoginSubmit
  \/ \E acct \in lookup : \E out \in LookupOutcomes(acct) : LookupResolve(acct, out)
  \/ \E c \in inflight : \E out \in FetchOutcomes : \E t \in 1..MaxClock :
       BootstrapResolve(c, out, t)
  \/ \E content \in Contents : \E t \in 1..MaxClock : SendStart(content, t)
  \/ \E c \in inflight : \E out \in FetchOutcomes : \E t \in 1..MaxClock :
       SendResolve(c, out, t)
  \/ \E c \in inflight : \E out \in FetchOutcomes : CallRejects(c, out)

Spec == Init /\ [][Next]_vars

\* ============================================================== properties
IsPrefix(s, t) == Len(s) <= Len(t) /\ SubSeq(t, 1, Len(s)) = s
Last(s) == s[Len(s)]

\* The step taken is handleSendMessage up to its await.
IsSendStart == nextTurn' = nextTurn + 1
\* The step taken is handleSendMessage resuming with null / with data.
IsSendFailure == resolved'.op = "send" /\ ~TruthyObj(resolved'.data)
IsSendSuccess == resolved'.op = "send" /\ TruthyObj(resolved'.data)
\* The step taken is Home.handleLogin resuming with data.
IsBootstrapSuccess == resolved'.op = "bootstrap" /\ TruthyObj(resolved'.data)

\* The entries of a reply's list, none when the list is absent.
ItemsOf(list) == IF TruthyObj(list) THEN list.items ELSE EmptyList

\* m is the user message that send number turn appended.
IsUserMessageOf(m, turn) ==
  /\ m.role = "user" /\ m.turn = turn /\ m.agent = UndefinedStr
  /\ \E content \in Contents : m.content = <<content>>

\* C1: a send whose transport call returns null contributes exactly its user
\* message (the optimistic step) and exactly one assistant fallback message
\* labelled "System" (the resuming step), and neither step changes the
\* current agent, roster, guardrails, shared context, event trace or
\* conversation id; when nothing else ran in between, the fallback directly
\* follows the user message.
C1_FailedSendAddsUserAndOneFallback ==
  [][ /\ IsSendStart =>
           /\ Len(messages') = Len(messages) + 1
           /\ IsPrefix(messages, messages')
           /\ IsUserMessageOf(Last(messages'), nextTurn)
           /\ UNCHANGED sliceVars
      /\ IsSendFailure =>
           /\ Len(messages') = Len(messages) + 1
           /\ IsPrefix(messages, messages')
           /\ Last(messages').role = "assistant"
           /\ Last(messages').agent = "System"
           /\ Last(messages').content = FallbackContent
           /\ UNCHANGED sliceVars
           /\ resolved'.alone => IsUserMessageOf(Last(messages), resolved'.turn)
    ]_vars

\* A send that ran alone has just failed in a seeded session: the transcript
\* ends with its user message and the fallback.
C1_Witness ==
  /\ resolved.op = "send" /\ ~TruthyObj(resolved.data) /\ resolved.alone
  /\ Len(messages) >= 3
  /\ Last(messages).agent = "System"
  /\ messages[Len(messages) - 1].role = "user"
  /\ TruthyStr(currentAgent) /\ agents # EmptyList /\ events # EmptyList
  /\ TruthyStr(conversationId)

\* C2: after login every step leaves the previous transcript a prefix of
\* the new transcript and the previous event trace a prefix of the new one.
C2_TranscriptAndTraceOnlyGrow ==
  [][ isLoggedIn => IsPrefix(messages, messages') /\ IsPrefix(events, events') ]_vars

\* C3: in the transcript no message produced by the response to a later send
\* stands before a message produced by the response to an earlier send.
C3_ResponsesInSubmissionOrder ==
  \A i \in 1..Len(messages) : \A j \in 1..Len(messages) :
    ( /\ i < j
      /\ messages[i].role = "assistant" /\ messages[j].role = "assistant"
      /\ messages[i].turn >= 1 /\ messages[j].turn >= 1 )
    => messages[i].turn <= messages[j].turn

\* C4: at most one send is in flight at any time.
C4_AtMostOneSendInFlight ==
  Cardinality({ c \in inflight : c.op = "send" }) <= 1

\* C5: every send's optimistic step appends exactly its user message; every
\* successful send's resuming step appends exactly one assistant message per
\* entry of the reply's message list (none when the list is absent), in the
\* reply's order; for a send that did not overlap any other call the user
\* message directly precedes them.
C5_SuccessfulSendAddsUserThenReplies ==
  [][ /\ IsSendStart =>
           /\ Len(messages') = Len(messages) + 1
           /\ IsPrefix(messages, messages')
           /\ IsUserMessageOf(Last(messages'), nextTurn)
      /\ IsSendSuccess =>
           LET replies == ItemsOf(resolved'.data.messages) IN
           /\ Len(messages') = Len(messages) + Len(replies)
           /\ IsPrefix(messages, messages')
           /\ \A i \in 1..Len(replies) :
                LET m == messages'[Len(messages) + i] IN
                /\ m.role = "assistant"
                /\ m.content = replies[i].content
                /\ m.agent = replies[i].agent
                /\ m.turn = resolved'.turn
           /\ resolved'.alone => IsUserMessageOf(Last(messages), resolved'.turn)
    ]_vars

\* The second of two successive sends, neither overlapping another call, has
\* just received a reply of two messages.
C5_Witness ==
  /\ resolved.op = "send" /\ TruthyObj(resolved.data) /\ resolved.alone
  /\ resolved.turn = 2
  /\ Len(ItemsOf(resolved.data.messages)) = 2
  /\ Len(messages) >= 5
  /\ messages[Len(messages) - 2].role = "user"
  /\ \E i \in 1..Len(messages) : messages[i].turn = 1 /\ messages[i].role = "assistant"

\* C6 (as stated): a successful send response sets the current agent to the
\* value it supplies, and one that omits current_agent leaves a current agent
\* that names an agent unchanged (it is not cleared to the empty string).
C6_OmittedAgentKeepsCurrentAgent ==
  [][ IsSendSuccess =>
        IF TruthyStr(resolved'.data.current_agent)
          THEN currentAgent' = resolved'.data.current_agent
          ELSE TruthyStr(currentAgent) => currentAgent' = currentAgent ]_vars

\* C6 (amended): after a successful response the current agent is the value
\* that response supplied; a send response that omits current_agent sets the
\* current agent to the empty string, a bootstrap response that omits it
\* leaves it undefined; no other step changes the current agent.
C6_SendSetsAgentOrEmpty ==
  [][ /\ IsSendSuccess =>
           currentAgent' = IF TruthyStr(resolved'.data.current_agent)
                             THEN resolved'.data.current_agent
                             ELSE ""
      /\ IsBootstrapSuccess => currentAgent' = resolved'.data.current_agent
      /\ ~(IsSendSuccess \/ IsBootstrapSuccess) => currentAgent' = currentAgent
    ]_vars

\* A send response without current_agent has just been folded in and the
\* current agent is empty, in a session whose roster shows an earlier reply.
C6_Witness ==
  /\ resolved.op = "send" /\ TruthyObj(resolved.data)
  /\ resolved.data.current_agent = UndefinedStr
  /\ currentAgent = ""
  /\ agents # EmptyList

\* C7: a successful send response replaces the roster by the roster it
\* carries and leaves the roster unchanged when it carries none, and likewise
\* for the guardrail list; issuing a send and a failed send change neither.
C7_RosterAndGuardrailsLatestIncluded ==
  [][ /\ IsSendSuccess =>
           /\ agents' = IF TruthyObj(resolved'.data.agents)
                          THEN resolved'.data.agents.items ELSE agents
           /\ guardrails' = IF TruthyObj(resolved'.data.guardrails)
                              THEN resolved'.data.guardrails.items ELSE guardrails
      /\ (IsSendStart \/ IsSendFailure) => UNCHANGED << agents, guardrails >>
    ]_vars

\* A send response without agents and guardrails has just been folded in and
\* the roster and guardrail list of an earlier response are still there.
C7_Witness ==
  /\ resolved.op = "send" /\ TruthyObj(resolved.data)
  /\ ~TruthyObj(resolved.data.agents) /\ ~TruthyObj(resolved.data.guardrails)
  /\ agents = Roster2 /\ guardrails = Guard2

\* C8: after every successful response, bootstrap or send, the shared context
\* is that response's context when it carries one and the empty mapping when
\* it carries none.
C8_ContextReplacedOrEmptied ==
  (resolved.op \in {"bootstrap", "send"} /\ TruthyObj(resolved.data)) =>
    context = IF TruthyObj(resolved.data.context) THEN resolved.data.context ELSE EmptyCtx

\* C9: the events a successful response adds to the trace are the response's
\* events in order, each with the timestamp it arrived with or, when it
\* arrived with none, the clock reading of the step that received it; a send
\* response adds them after the events already there, which stay as they
\* are, and no other step changes the trace.
C9_EventTimestampsKeptOrStamped ==
  [][ LET arrived == ItemsOf(resolved'.data.events)
          kept == IF IsSendSuccess THEN events ELSE EmptyList
      IN
      /\ (IsSendSuccess \/ IsBootstrapSuccess) =>
           /\ Len(events') = Len(kept) + Len(arrived)
           /\ IsPrefix(kept, events')
           /\ \A i \in 1..Len(arrived) :
                LET e == events'[Len(kept) + i] IN
                /\ e.type = arrived[i].type
                /\ e.timestamp = IF arrived[i].timestamp # NoTimestamp
                                   THEN arrived[i].timestamp
                                   ELSE now'
      /\ ~(IsSendSuccess \/ IsBootstrapSuccess) => events' = events
    ]_vars

\* The trace holds an event with its server timestamp and an event stamped at
\* an earlier receipt than the latest clock reading, after a later response.
C9_Witness ==
  /\ Len(events) >= 3
  /\ \E i \in 1..Len(events) : events[i].type = "handoff" /\ events[i].timestamp = 0
  /\ \E i \in 1..Len(events) :
       events[i].type = "message" /\ events[i].timestamp = 1 /\ now = 2
  /\ resolved.op = "send" /\ resolved.turn = 2

\* m is a welcome message.
IsWelcome(m) ==
  m.role = "assistant" /\ m.agent = "Triage Agent" /\ m.content[1] = "Welcome back, "
Contains(content, s) == \E k \in 1..Len(content) : content[k] = s
WelcomeCount == Cardinality({ i \in 1..Len(messages) : IsWelcome(messages[i]) })

\* C10 (as stated): right after the bootstrap call of a login returned data,
\* the transcript holds exactly one welcome message, which contains the
\* customer's name, and the conversation id is non-empty.
C10_LoginSeedsWelcomeAndNonEmptyId ==
  (resolved.op = "bootstrap" /\ TruthyObj(resolved.data)) =>
    /\ WelcomeCount = 1
    /\ \A i \in 1..Len(messages) :
         IsWelcome(messages[i]) => Contains(messages[i].content, customerInfo.customer.name)
    /\ TruthyStr(conversationId)

\* C10 (amended): right after the bootstrap call of a login returned data,
\* the transcript holds exactly one welcome message, which contains the
\* customer's name, and the conversation id is the one the response carries:
\* non-empty when the response carries a non-empty id, undefined when it
\* carries none.
C10_LoginSeedsWelcomeAndResponseId ==
  (resolved.op = "bootstrap" /\ TruthyObj(resolved.data)) =>
    /\ WelcomeCount = 1
    /\ \A i \in 1..Len(messages) :
         IsWelcome(messages[i]) => Contains(messages[i].content, customerInfo.customer.name)
    /\ conversationId = resolved.data.conversation_id
    /\ TruthyStr(conversationId) <=> TruthyStr(resolved.data.conversation_id)

\* The bootstrap call has just returned a response with messages and an id.
C10_Witness ==
  /\ resolved.op = "bootstrap" /\ TruthyObj(resolved.data)
  /\ IsArray(resolved.data.messages)
  /\ isLoggedIn /\ customerInfo.customer.name = "Ava Shah"
  /\ WelcomeCount = 1
  /\ conversationId = "conv-1"

\* The step taken is CustomerLogin.handleLogin called with a blank account box.
IsBlankSubmit == resolved'.op = "submit" /\ ~TruthyStr(Trim(loginInput))
\* The step taken is CustomerLogin.handleLogin resuming from a lookup that
\* did not succeed.
IsLookupFailure == resolved'.op = "lookup" /\ resolved'.data.kind # "ok"

\* C11: a login attempt with a blank account number shows the "enter your
\* account number" error and issues no lookup; a lookup answered 404 shows
\* the "not found" error, one answered with another non-success status the
\* "failed to load" error, one that ends in a network exception the network
\* error; after each of these failures the session is logged out, holds no
\* customer record and no account number, and no chat call is in flight.
C11_LoginFailuresLeaveLoggedOut ==
  [][ /\ IsBlankSubmit =>
           /\ loginError' = "Please enter your account number"
           /\ lookup' = lookup /\ lookup' = {}
           /\ ~loginLoading'
      /\ IsLookupFailure =>
           /\ resolved'.data.kind = "http_error" /\ resolved'.data.status = 404
                => loginError' = "Account number not found. Please check and try again."
           /\ resolved'.data.kind = "http_error" /\ resolved'.data.status # 404
                => loginError' = "Failed to load customer information. Please try again."
           /\ resolved'.data.kind = "network_error"
                => loginError' = "Network error. Please check your connection and try again."
           /\ ~loginLoading'
      /\ (IsBlankSubmit \/ IsLookupFailure) =>
           /\ ~isLoggedIn /\ ~isLoggedIn'
           /\ customerInfo' = NullObj
           /\ accountNumber' = ""
           /\ inflight = {} /\ inflight' = {}
    ]_vars

\* The lookup of the unknown account CUST999 has just been answered 404.
C11_Witness ==
  /\ resolved.op = "lookup" /\ resolved.data.kind = "http_error"
  /\ resolved.data.status = 404
  /\ loginInput = "CUST999"
  /\ loginError = "Account number not found. Please check and try again."
  /\ ~isLoggedIn /\ ~loginLoading /\ inflight = {}

\* C12: in every reachable state the ids of the transcript's messages are
\* pairwise distinct, whatever the clock readings at which they were created.
C12_MessageIdsPairwiseDistinct ==
  \A i \in 1..Len(messages) : \A j \in 1..Len(messages) :
    i # j => messages[i].id # messages[j].id

\* Account-number arguments callChatAPI may be given: none, empty, present.
AccountArgs == {UndefinedStr, "", "CUST001"}

\* C13: callChatAPI never throws to its caller (no await of it ends in a
\* rejection), returns null for every non-success status and every network
\* failure, makes one request per invocation (no invocation has two requests
\* in flight), and posts account_number exactly when an account number was
\* supplied.
C13_CallChatAPINeverThrows ==
  /\ resolved.op # "rejected"
  /\ \A out \in FetchOutcomes :
       out.kind \in {"http_error", "network_error"} =>
         ~CallChatAPIThrows(out) /\ CallChatAPIResult(out) = NullObj
  /\ \A c \in inflight : \A d \in inflight :
       (c.op = d.op /\ c.turn = d.turn) => c = d
  /\ \A c \in inflight : c.body.account_number = accountNumber
  /\ \A acct \in AccountArgs :
       ChatRequestBody("Change my seat", "conv-1", acct).account_number =
         (IF acct \in {UndefinedStr, ""} THEN UndefinedStr ELSE acct)

\* The calls that the step takes out of flight.
ResolvedCalls == { c \in inflight : \A d \in inflight' : d.op # c.op \/ d.turn # c.turn }

\* C14 (as stated): a successful send response that carries a conversation id
\* different from a known stored one replaces the stored id by its own.
C14_KnownIdReplacedByResponseId ==
  [][ ( /\ IsSendSuccess
        /\ TruthyStr(conversationId)
        /\ TruthyStr(resolved'.data.conversation_id)
        /\ resolved'.data.conversation_id # conversationId )
      => conversationId' = resolved'.data.conversation_id ]_vars

\* C14 (amended): a successful send whose handler was invoked with a known
\* conversation id leaves the stored id unchanged, whatever id the response
\* carries; a successful send whose handler was invoked with no known id
\* sets the stored id to the response's id, or to null when it carries none.
C14_KnownIdKeptByLaterResponses ==
  [][ IsSendSuccess =>
        \A c \in ResolvedCalls :
          conversationId' =
            IF TruthyStr(c.conversationId)
              THEN conversationId
              ELSE IF TruthyStr(resolved'.data.conversation_id)
                THEN resolved'.data.conversation_id
                ELSE NullStr ]_vars

\* A send response carrying "conv-2" has just been folded in and the stored
\* conversation id is still the "conv-1" the login obtained.
C14_Witness ==
  /\ resolved.op = "send" /\ TruthyObj(resolved.data)
  /\ resolved.data.conversation_id = "conv-2"
  /\ conversationId = "conv-1"

\* C15: right after the bootstrap call of a login returned data with a
\* message list, the transcript is one assistant message per entry of that
\* list, in the list's order, followed by the welcome message as the last
\* element (for a login that no send overlapped).
C15_WelcomeFollowsBootstrapMessages ==
  ( /\ resolved.op = "bootstrap" /\ TruthyObj(resolved.data) /\ resolved.alone
    /\ IsArray(resolved.data.messages) )
  => LET replies == resolved.data.messages.items IN
     /\ Len(messages) = Len(replies) + 1
     /\ \A i \in 1..Len(replies) :
          i <= Len(messages) =>
            /\ messages[i].role = "assistant"
            /\ messages[i].content = replies[i].content
            /\ messages[i].agent = replies[i].agent
     /\ IsWelcome(Last(messages))

\* The step taken is Home.handleLogin resuming with null.
IsBootstrapFailure == resolved'.op = "bootstrap" /\ ~TruthyObj(resolved'.data)

\* C16: when the bootstrap call of a login returns no data, the resuming step
\* changes nothing: the session stays logged in with the customer record and
\* account number of the lookup, no login error is shown and no message is
\* added; after a login that no send overlapped the conversation id is
\* still null and the transcript, event trace, roster, guardrails, shared
\* context and current agent still have their initial empty values.
C16_BootstrapWithoutDataLeavesSessionEmpty ==
  [][ IsBootstrapFailure =>
        /\ isLoggedIn'
        /\ accountNumber' = loginInput' /\ TruthyStr(accountNumber')
        /\ customerInfo' = CustomerRecord(accountNumber')
        /\ loginError' = ""
        /\ UNCHANGED << messages, sliceVars, sessionVars, isLoading, loginVars >>
        /\ resolved'.alone =>
             /\ conversationId' = NullStr
             /\ messages' = EmptyList /\ events' = EmptyList
             /\ agents' = EmptyList /\ guardrails' = EmptyList
             /\ context' = EmptyCtx /\ currentAgent' = ""
             /\ ~isLoading'
    ]_vars

\* The bootstrap call of the login of CUST001 has just returned null: the
\* session is logged in and nothing is seeded.
C16_Witness ==
  /\ resolved.op = "bootstrap" /\ ~TruthyObj(resolved.data) /\ resolved.alone
  /\ isLoggedIn /\ accountNumber = "CUST001"
  /\ customerInfo = CustomerRecord("CUST001")
  /\ conversationId = NullStr /\ messages = EmptyList
  /\ inflight = {}

\* The chat requests that the step issues.
IssuedCalls == { c \in inflight' : \A d \in inflight : d.op # c.op \/ d.turn # c.turn }

\* C17: no chat request is in flight while the session is logged out; the
\* only step that issues one from a logged-out session is the customer
\* lookup resuming with success, and the request it issues is the bootstrap
\* form: empty message, empty conversation id and the account number that
\* step records; every request issued later carries that account number,
\* which no later step changes.
C17_BootstrapFirstThenSameAccount ==
  [][ /\ ~isLoggedIn => inflight = {}
      /\ \A c \in IssuedCalls :
           IF ~isLoggedIn
             THEN /\ resolved'.op = "lookup" /\ resolved'.data.kind = "ok"
                  /\ isLoggedIn' /\ TruthyStr(accountNumber')
                  /\ IssuedCalls = {c}
                  /\ c.body = [conversation_id |-> "", message |-> "",
                               account_number |-> accountNumber']
             ELSE /\ IsSendStart
                  /\ c.body.account_number = accountNumber
                  /\ c.body.message # ""
      /\ isLoggedIn => isLoggedIn' /\ accountNumber' = accountNumber
    ]_vars

\* Two sends have been issued after the bootstrap call and both requests are
\* in flight with the account number of the login.
C17_Witness ==
  /\ isLoggedIn /\ accountNumber = "CUST001"
  /\ Cardinality({ c \in inflight : c.op = "send" }) = 2
  /\ \A c \in inflight : c.body.account_number = "CUST001"
  /\ resolved.op = "none"

\* C18: right after a send's transport call has resolved, with data or with
\* null, the pending flag is clear and the session is still logged in, so
\* the chat accepts a further send (handleSendMessage is enabled as long as
\* the explored number of sends allows).
C18_ResolvedSendClearsPending ==
  (resolved.op = "send") =>
    /\ ~isLoading
    /\ isLoggedIn
    /\ nextTurn <= MaxSends =>
         ENABLED (\E content \in Contents : \E t \in 1..MaxClock : SendStart(content, t))

\* A send failed, a further send was then accepted and has just been answered
\* with data: its replies are in the transcript after the fallback message
\* of the failed one, and nothing is pending.
C18_Witness ==
  /\ resolved.op = "send" /\ TruthyObj(resolved.data) /\ resolved.turn = 2
  /\ ~isLoading /\ inflight = {}
  /\ \E i \in 1..Len(messages) : \E j \in 1..Len(messages) :
       /\ i < j
       /\ messages[i].agent = "System" /\ messages[i].turn = 1
       /\ messages[j].role = "assistant" /\ messages[j].turn = 2
       /\ messages[j].agent = "Seat Booking Agent"
  /\ currentAgent = "Seat Booking Agent"

\* C19: the pending flag is true in every state in which the transport call
\* of at least one send is unresolved.
C19_PendingWhileAnySendInFlight ==
  (\E c \in inflight : c.op = "send") => isLoading

\* C20: once the stored conversation id is non-empty, no successful send
\* response changes it, whenever the send was issued.
C20_KnownIdNeverChangedBySend ==
  [][ (IsSendSuccess /\ TruthyStr(conversationId)) => conversationId' = conversationId ]_vars

\* Every send issued so far has been answered with data, and there were
\* several.
AllSendsAnswered ==
  /\ nextTurn > 2
  /\ answers.answered = 1..(nextTurn - 1)
  /\ \A c \in inflight : c.op # "send"

\* C21: right after the answer that completes several sends, all answered
\* with data, the current agent and the shared context are those of the
\* response to the last-submitted send, in whatever order the responses
\* arrived.
C21_SnapshotFromLastSubmittedSend ==
  (AllSendsAnswered /\ resolved.op = "send" /\ TruthyObj(resolved.data)) =>
    /\ currentAgent = OrStr(answers.data.current_agent, "")
    /\ context = OrObj(answers.data.context, EmptyCtx)

\* The positions of list evs that hold an event of another kind than "message".
KeptPositions(evs) == { i \in 1..Len(evs) : evs[i].type # "message" }

\* C22: the list handed to the runner-output display holds exactly the events
\* of the trace whose kind is not "message", each once and in the trace's
\* order; the stored trace is not changed by the filtering: a response's
\* events, those of kind "message" included, are all in it after the step
\* that received them.
C22_RunnerEventsAreTraceWithoutMessages ==
  [][ /\ Len(runnerEvents') = Cardinality(KeptPositions(events'))
      /\ \A i \in KeptPositions(events') :
           runnerEvents'[Cardinality({ j \in KeptPositions(events') : j <= i })] = events'[i]
      /\ \A k \in 1..Len(runnerEvents') : runnerEvents'[k].type # "message"
      /\ IsSendSuccess =>
           /\ IsPrefix(events, events')
           /\ Len(events') = Len(events) + Len(ItemsOf(resolved'.data.events))
      /\ runnerEvents' # runnerEvents => events' # events
    ]_vars

\* The trace holds a handoff, a message event and a tool call in this order
\* and the display got the handoff and the tool call.
C22_Witness ==
  /\ Len(events) = 3
  /\ events[1].type = "handoff" /\ events[2].type = "message"
  /\ events[3].type = "tool_call"
  /\ Len(runnerEvents) = 2
  /\ runnerEvents[1] = events[1] /\ runnerEvents[2] = events[3]
====
